---- MODULE Spec2Model ----
(***************************************************************************)
(* TrDesign session (tr/src/model.py): class mk_trdesign_model and the     *)
(* geometry binner _np_get_6D_binned.                                      *)
(*                                                                         *)
(* Real numbers are exact rationals [n, d]; arrays carry their shape.      *)
(* The structure-prediction network, the background network, the PDB      *)
(* parser and the 6D geometry routine are external: they are stood in for  *)
(* by deterministic functions of exactly the arguments the code passes.    *)
(***************************************************************************)
EXTENDS Integers, Sequences, FiniteSets, TLC

VARIABLES
  protocol,    \* self.protocol
  opt,         \* self.opt
  params,      \* self.params
  feats,       \* self.feats
  bkg_feats,   \* self.bkg_feats
  _len,        \* self._len
  _seed,       \* self._seed
  _key,        \* self._key
  _loss,       \* self._loss
  _aux,        \* self._aux
  _grad,       \* self._grad
  err,         \* exception raised by the last call ("none" when it returned)
  lastOp,      \* the last call and its arguments
  used,        \* instance indices whose model was invoked by the last run, in order
  af_before,   \* the external optimizer object handed to the last callback
  af_model,    \* that object after the callback
  ncalls,      \* number of calls made on the session
  bin_in,      \* input of the geometry binner (output of _np_get_6D)
  bin_out,     \* output of the geometry binner
  comp_in,     \* input of the loss composition
  comp_out     \* output of the loss composition

vars == <<protocol, opt, params, feats, bkg_feats, _len, _seed, _key, _loss, _aux,
          _grad, err, lastOp, used, af_before, af_model, ncalls,
          bin_in, bin_out, comp_in, comp_out>>

sessionVars == <<protocol, opt, params, feats, bkg_feats, _len, _seed, _key, _loss,
                 _aux, _grad, err, lastOp, used, af_before, af_model, ncalls>>

----------------------------------------------------------------------------
(* Python values *)

\* an attribute that was never assigned (reading it raises AttributeError)
Undef == [undef |-> TRUE]

\* Python's None
NoneV == [none |-> TRUE]

\* the member of a one-element set
The(S) == CHOOSE x \in S : TRUE

----------------------------------------------------------------------------
(* Exact rational arithmetic *)

RECURSIVE GCD(_, _)
GCD(a, b) == IF b = 0 THEN a ELSE GCD(b, a % b)

Abs(x) == IF x < 0 THEN -x ELSE x

Rat(n, d) ==
  LET g == GCD(Abs(n), Abs(d))
      s == IF d < 0 THEN -1 ELSE 1
  IN [n |-> (s * n) \div g, d |-> (s * d) \div g]

RInt(i) == [n |-> i, d |-> 1]
RAdd(a, b) == Rat(a.n * b.d + b.n * a.d, a.d * b.d)
RMul(a, b) == Rat(a.n * b.n, a.d * b.d)
RDivInt(a, k) == Rat(a.n, a.d * k)

RECURSIVE RSum(_)
RSum(s) == IF s = <<>> THEN RInt(0) ELSE RAdd(Head(s), RSum(Tail(s)))

\* jnp.asarray(v).mean() / jnp.stack(v).mean(0) on one leaf
RMean(s) == RDivInt(RSum(s), Len(s))

RECURSIVE SumSeq(_)
SumSeq(s) == IF s = <<>> THEN 0 ELSE Head(s) + SumSeq(Tail(s))

----------------------------------------------------------------------------
(* Array values: [shape, data]; data is indexed 1..shape[1] x 1..shape[2] *)

NumAA == 20

Full(L, v) == [shape |-> <<L, NumAA>>, data |-> [i \in 1..L |-> [a \in 1..NumAA |-> v]]]

\* np.zeros((L, 20))
Zeros(L) == Full(L, RInt(0))

\* jnp.zeros_like(x)
ZerosLike(x) ==
  [shape |-> x.shape,
   data |-> [i \in DOMAIN x.data |-> [a \in DOMAIN x.data[i] |-> RInt(0)]]]

\* elementwise a + w * b for equal shapes
AddScaled(a, w, b) ==
  [shape |-> a.shape,
   data |-> [i \in DOMAIN a.data |->
              [c \in DOMAIN a.data[i] |-> RAdd(a.data[i][c], RMul(w, b.data[i][c]))]]]

\* jnp.stack(v).mean(0) over a sequence of equally shaped arrays
ArrMean(v) ==
  [shape |-> v[1].shape,
   data |-> [i \in DOMAIN v[1].data |->
              [c \in DOMAIN v[1].data[i] |->
                 RMean([k \in 1..Len(v) |-> v[k].data[i][c]])]]]

----------------------------------------------------------------------------
(* GeometryBinner: _np_get_6D_binned                                       *)
(* Geometric values are integers on a grid of Res points per bin width:    *)
(* a distance unit is 0.5/Res Angstrom, an angle unit is (pi/12)/Res.      *)

Res == 2
MaxLen == 2

Lens == 2..MaxLen

Channels == <<"dist", "omega", "theta", "phi">>
ChannelSet == {"dist", "omega", "theta", "phi"}

DistBins == 37
OmegaBins == 25
ThetaBins == 25
PhiBins == 13

NBins(k) ==
  CASE k = "dist" -> DistBins
    [] k = "omega" -> OmegaBins
    [] k = "theta" -> ThetaBins
    [] k = "phi" -> PhiBins

\* 2.0, 20.0, -pi, pi, 0.0 in grid units
DistStart == 4 * Res
DistEnd == 40 * Res
Pi == 12 * Res

Start(k) ==
  CASE k = "dist" -> DistStart
    [] k = "omega" -> -Pi
    [] k = "theta" -> -Pi
    [] k = "phi" -> 0

End(k) ==
  CASE k = "dist" -> DistEnd
    [] k = "omega" -> Pi
    [] k = "theta" -> Pi
    [] k = "phi" -> Pi

\* np.linspace(start, end, nbins): nbins thresholds, both ends included
Linspace(start, end, nbins) ==
  [i \in 1..nbins |-> start + ((i - 1) * (end - start)) \div (nbins - 1)]

\* np.digitize(x, bins) for increasing bins: the number of thresholds <= x
Digitize(x, bins) == Cardinality({i \in DOMAIN bins : bins[i] <= x})

\* .astype(np.uint8)
Uint8(x) == x % 256

\* np.eye(nbins+1)[x_true][..., :-1]: row x_true of the identity, last column dropped
EyeRowCut(nbins, x_true) == [c \in 1..nbins |-> IF c - 1 = x_true THEN 1 ELSE 0]

mtx2bins(x_ref, start, end, nbins, mask) ==
  LET bins == Linspace(start, end, nbins)
      x_true(i, j) == IF mask[i][j] THEN 0 ELSE Uint8(Digitize(x_ref[i][j], bins))
  IN [i \in DOMAIN x_ref |-> [j \in DOMAIN x_ref[i] |-> EyeRowCut(nbins, x_true(i, j))]]

\* mask = (ref["dist"] > 20) | (np.eye(L) == 1)
BinMask(ref) ==
  [i \in DOMAIN ref.dist |-> [j \in DOMAIN ref.dist[i] |-> ref.dist[i][j] > DistEnd \/ i = j]]

np_get_6D_binned(ref) ==
  [k \in ChannelSet |-> mtx2bins(ref[k], Start(k), End(k), NBins(k), BinMask(ref))]

\* a structure of length L whose off-diagonal pairs all have geometry g
UniformRef(L, g) ==
  [k \in ChannelSet |-> [i \in 1..L |-> [j \in 1..L |-> IF i = j THEN 0 ELSE g[k]]]]

EdgeProbes(k) == {Start(k) - 1, Start(k), Start(k) + 1, End(k) - 1, End(k), End(k) + 1}

\* values _np_get_6D can return: dist >= 0, omega/theta in [-pi, pi], phi in [0, pi]
Domain(k) ==
  CASE k = "dist" -> 0..(DistEnd + 1)
    [] k = "omega" -> (-Pi)..Pi
    [] k = "theta" -> (-Pi)..Pi
    [] k = "phi" -> 0..Pi

Probes(k) == (EdgeProbes(k) \cup {0}) \cap Domain(k)

BinInputs ==
  {UniformRef(L, g) : L \in Lens,
                      g \in [dist : Probes("dist"), omega : Probes("omega"),
                             theta : Probes("theta"), phi : Probes("phi")]}

----------------------------------------------------------------------------
(* External collaborators, stood in for by deterministic functions *)

\* a boxed integer attribute (an attribute is either Undef or boxed)
Box(v) == [val |-> v]

\* prep_pdb + _np_get_6D on the PDB file of length L
PdbRef(L) ==
  [k \in ChannelSet |->
     [i \in 1..L |-> [j \in 1..L |->
        IF i = j THEN 0
        ELSE CASE k = "dist" -> DistStart + 7 * Abs(i - j) * Res
               [] k = "omega" -> (i - j) * Res
               [] k = "theta" -> (j - i) * Res + 1
               [] k = "phi" -> (i + j) * Res]]]

\* length of a binned target
FeatsLen(f) == Cardinality(DOMAIN f.dist)

\* TrRosetta(bkg_model=True) applied to background parameter set n at length L
BkgOut(n, L) == [shape |-> <<L, L>>, tag |-> RInt(n + L)]

NumBkgModels == 5

\* jax.random.PRNGKey(seed): the words (seed >> 32, seed & 0xFFFFFFFF), then the
\* splits taken from it; seeds are below 2^31, so the low word is the seed itself
PRNGKey(seed) == [hi |-> (seed \div 65536) \div 65536,
                  lo |-> seed,
                  path |-> <<>>]

\* jax.random.split(key): two child keys
Split(key) == <<[key EXCEPT !.path = Append(@, 0)], [key EXCEPT !.path = Append(@, 1)]>>

NumModels == 5

\* jnp.arange(5)
ns == [i \in 1..NumModels |-> i - 1]

\* jax.random.choice(key, ns, (m,), replace=False): a pseudo-random function of the
\* key returning m pairwise distinct members of ns (an affine permutation mod 5)
Choice(key, m) ==
  LET a == ((key.lo % NumModels) + Len(key.path)) % NumModels
      b == 1 + ((key.lo \div NumModels + key.hi + SumSeq(key.path)) % (NumModels - 1))
  IN [i \in 1..m |-> ns[1 + ((a + b * (i - 1)) % NumModels)]]

\* variant: the slice stops one short
TakeShort(arr, m) == [i \in 1..(m - 1) |-> arr[i]]

\* ns[:m]
Take(arr, m) == [i \in 1..(IF m < Len(arr) THEN m ELSE Len(arr)) |-> arr[i]]

\* self._runner(seq["pseudo"], model_params): the network with parameter set n
Runner(pseudo, n) ==
  [L |-> pseudo.input.shape[1],
   tag |-> RInt(n + pseudo.temp + pseudo.soft + 2 * pseudo.hard + pseudo.input.data[1][1].n)]

----------------------------------------------------------------------------
(* update_dict: recursive merge-update; None values are skipped *)

\* one level of leaves
MergeLeaves(d, x) ==
  [k \in DOMAIN d \cup DOMAIN x |-> IF k \in DOMAIN x THEN x[k] ELSE d[k]]

\* two levels: term -> channel -> weight
MergeTerms(d, x) ==
  [t \in DOMAIN d \cup DOMAIN x |->
     IF t \in DOMAIN x
     THEN IF t \in DOMAIN d THEN MergeLeaves(d[t], x[t]) ELSE x[t]
     ELSE d[t]]

\* set_weights: update_dict(self.opt["weights"], weights)
set_weights(o, w) ==
  IF w = NoneV THEN o ELSE [o EXCEPT !.weights = MergeTerms(@, w)]

\* set_opt: update_dict(self.opt, opt)
set_opt(o, x) ==
  IF x = NoneV THEN o
  ELSE [k \in DOMAIN o |->
          IF k \notin DOMAIN x THEN o[k]
          ELSE IF k = "weights" THEN MergeTerms(o[k], x[k])
          ELSE IF k = "model" THEN MergeLeaves(o[k], x[k])
          ELSE x[k]]

\* update_dict(self.params, seq=seq); update_dict(self.params, params)
update_params(p, seq, prm) ==
  LET p1 == IF seq = NoneV THEN p ELSE [p EXCEPT !.seq = seq]
  IN IF prm = NoneV THEN p1 ELSE [p1 EXCEPT !.seq = prm.seq]

----------------------------------------------------------------------------
(* _get_model: the differentiable model of one ensemble instance *)

ChannelIdx(k) ==
  CASE k = "dist" -> 1 [] k = "omega" -> 2 [] k = "theta" -> 3 [] k = "phi" -> 4

\* variant: missing logits are replaced by a default instead of raising
get_seq_default(prm, o) ==
  [err |-> "none",
   seq |-> [input |-> IF prm.seq = NoneV THEN Zeros(1) ELSE prm.seq,
            temp |-> o.temp, soft |-> o.soft, hard |-> o.hard]]

\* _get_seq: the sequence views; 2.0 * None raises TypeError.  opt["pos"] is only
\* set by prep_inputs(pos=...), which is not exercised, so the overwrite is skipped.
get_seq(prm, o) ==
  IF prm.seq = NoneV THEN [err |-> "TypeError", seq |-> Undef]
  ELSE [err |-> "none",
        seq |-> [input |-> prm.seq, temp |-> o.temp, soft |-> o.soft, hard |-> o.hard]]

\* shapes (L, L, bins) and (M, M, bins) broadcast iff L = M or one of them is 1
Broadcasts(L, M) == L = M \/ L = 1 \/ M = 1

\* -(p[k]*(log_p[k]-log_q[k])).sum(-1).mean()
BkgLoss(k, outputs, q) ==
  RMul(RInt(-1), RAdd(RMul(outputs.tag, RInt(ChannelIdx(k))), q.tag))

\* -(q[k]*log_p[k]).sum(-1).mean(): depends on the target through its bin-0 count
CceLoss(k, outputs, q) ==
  LET zero == Cardinality({ij \in (DOMAIN q[k]) \X (DOMAIN q[k]) : q[k][ij[1]][ij[2]][1] = 1})
  IN RAdd(outputs.tag, RInt(ChannelIdx(k) + zero))

\* the two dict trees have the same structure (jax.tree_map raises otherwise)
SameTree(a, b) == DOMAIN a = DOMAIN b /\ \A t \in DOMAIN a : DOMAIN a[t] = DOMAIN b[t]

\* the sum of loss times weight over the computed losses, a missing weight counted
\* as zero and an unmatched weight ignored
ZeroDefaultTotal(losses, weights) ==
  RSum([x \in 1..(2 * 4) |->
     LET t == IF x <= 4 THEN "cce" ELSE "bkg"
         k == Channels[((x - 1) % 4) + 1]
     IN IF t \in DOMAIN losses /\ k \in DOMAIN losses[t]
           /\ t \in DOMAIN weights /\ k \in DOMAIN weights[t]
        THEN RMul(losses[t][k], weights[t][k]) ELSE RInt(0)])

\* variant: a mismatch between losses and weights is tolerated
LenientWeighted(losses, weights) ==
  [err |-> "none", loss |-> ZeroDefaultTotal(losses, weights)]

\* weighted_losses = jax.tree_map(lambda l, w: l * w, losses, weights); sum(leaves)
Weighted(losses, weights) ==
  IF ~SameTree(losses, weights) THEN [err |-> "ValueError", loss |-> Undef]
  ELSE [err |-> "none",
        loss |-> RSum([x \in 1..(2 * 4) |->
                   LET t == IF x <= 4 THEN "cce" ELSE "bkg"
                       k == Channels[((x - 1) % 4) + 1]
                   IN IF t \in DOMAIN losses /\ k \in DOMAIN losses[t]
                      THEN RMul(losses[t][k], weights[t][k]) ELSE RInt(0)])]

\* self.bkg_feats = [] before the background models are run; log_q[k] on a list
\* raises TypeError
EmptyList == [list |-> <<>>]

Failed(e) == [err |-> e, loss |-> Undef, aux |-> Undef, grad |-> Undef]

\* the weighted-loss block of _get_loss
Compose(losses, tag, o) ==
  The({IF w.err # "none" THEN Failed(w.err)
       ELSE [err |-> "none", loss |-> w.loss,
             aux |-> [outputs |-> tag, losses |-> losses], grad |-> Undef] :
         w \in {Weighted(losses, o.weights)}})

\* _get_loss(outputs, opt) for a session of protocol prot with targets f and bkg
get_loss(prot, f, bkg, outputs, o) ==
  LET hasBkg == prot \in {"hallucination", "partial"}
      hasCce == prot \in {"fixbb", "partial"}
      terms == (IF hasBkg THEN {"bkg"} ELSE {}) \cup (IF hasCce THEN {"cce"} ELSE {})
  IN IF hasBkg /\ bkg = Undef THEN Failed("AttributeError")
     ELSE IF hasBkg /\ bkg = EmptyList THEN Failed("TypeError")
     ELSE IF hasBkg /\ ~Broadcasts(outputs.L, bkg.shape[1]) THEN Failed("TypeError")
     ELSE IF hasCce /\ f = Undef THEN Failed("AttributeError")
     ELSE IF hasCce /\ ~Broadcasts(outputs.L, FeatsLen(f)) THEN Failed("TypeError")
     ELSE The({Compose(losses, outputs.tag, o) :
                 losses \in {[t \in terms |-> [k \in ChannelSet |->
                    IF t = "bkg" THEN BkgLoss(k, outputs, bkg)
                    ELSE CceLoss(k, outputs, f)]]}})

\* _model(params, model_params, opt) on a session record s with parameter set n
model(s, n) ==
  The({IF sq.err # "none" THEN Failed(sq.err)
       ELSE The({get_loss(s.protocol, s.feats, s.bkg_feats, outputs, s.opt) :
                   outputs \in {Runner(sq.seq, n)}}) :
         sq \in {get_seq(s.params, s.opt)}})

\* self._fn
Fn(s, n) == model(s, n)

\* self._grad_fn = value_and_grad(_model, has_aux=True, argnums=0): the gradient has
\* the structure of params
GradOf(prm, loss) ==
  [seq |-> [shape |-> prm.seq.shape,
            data |-> [i \in DOMAIN prm.seq.data |->
                       [a \in DOMAIN prm.seq.data[i] |-> RMul(loss, RInt(((i + a) % 3) - 1))]]]]

GradFn(s, n) ==
  The({IF r.err # "none" THEN r ELSE [r EXCEPT !.grad = GradOf(s.params, r.loss)] :
         r \in {model(s, n)}})

----------------------------------------------------------------------------
(* mk_trdesign_model: the session, as a record of its attributes *)

Protocols == {"fixbb", "hallucination", "partial"}

\* {"dist":1/6,"omega":1/6,"theta":2/6,"phi":2/6}
DefaultWeights ==
  [k \in ChannelSet |-> IF k \in {"dist", "omega"} THEN Rat(1, 6) ELSE Rat(2, 6)]

\* __init__(protocol, model_num, model_sample)
NewSession(prot, model_num, model_sample) ==
  [protocol |-> prot,
   opt |-> [temp |-> 1, soft |-> 1, hard |-> 1,
            model |-> [num |-> model_num, sample |-> model_sample],
            weights |-> <<>>],
   params |-> [seq |-> NoneV],
   feats |-> Undef, bkg_feats |-> Undef, _len |-> Undef, _seed |-> Undef,
   _key |-> Undef, _loss |-> Undef, _aux |-> Undef, _grad |-> Undef,
   err |-> "none", used |-> <<>>]

\* variant: the logits are allocated transposed, np.zeros((20, self._len))
restart_transposed(s, seed, rnd, o, w) ==
  The({IF s1._len = Undef THEN [s1 EXCEPT !.err = "AttributeError"]
       ELSE [s1 EXCEPT !.params = [@ EXCEPT !.seq =
                         [shape |-> <<NumAA, s1._len.val>>,
                          data |-> [i \in 1..NumAA |-> [a \in 1..s1._len.val |-> RInt(0)]]]],
                       !.opt = set_weights(set_opt(@, o), w)] :
         s1 \in {[s EXCEPT !._seed = Box(IF seed = NoneV THEN rnd ELSE seed.val),
                           !._key = PRNGKey(IF seed = NoneV THEN rnd ELSE seed.val),
                           !.err = "none"]}})

\* restart(seed, opt, weights); rnd is the outcome of random.randint(0, 2147483647)
restart(s, seed, rnd, o, w) ==
  The({IF s1._len = Undef THEN [s1 EXCEPT !.err = "AttributeError"]
       ELSE [s1 EXCEPT !.params = [@ EXCEPT !.seq = Zeros(s1._len.val)],
                       !.opt = set_weights(set_opt(@, o), w)] :
         s1 \in {[s EXCEPT !._seed = Box(IF seed = NoneV THEN rnd ELSE seed.val),
                           !._key = PRNGKey(IF seed = NoneV THEN rnd ELSE seed.val),
                           !.err = "none"]}})

\* the mean of the background models' outputs at length L
BkgMean(L) ==
  [shape |-> <<L, L>>, tag |-> RMean([n \in 1..NumBkgModels |-> BkgOut(n, L).tag])]

\* prep_inputs(pdb_filename, length=length, seed=seed); pos is always None
prep_target(s, pdb) ==
  IF s.protocol \in {"fixbb", "partial"}
  THEN [s EXCEPT !.feats = np_get_6D_binned(PdbRef(pdb.val)),
                 !._len = Box(pdb.val),
                 !.opt = [@ EXCEPT !.weights =
                           MergeTerms(@, [t \in {"cce"} |-> DefaultWeights])]]
  ELSE s

prep_bkg(s2, seed, rnd) ==
  IF s2.protocol \in {"hallucination", "partial"}
  THEN IF s2._len = Undef
       THEN [s2 EXCEPT !.bkg_feats = EmptyList, !.err = "AttributeError"]
       ELSE restart([s2 EXCEPT !.bkg_feats = BkgMean(s2._len.val),
                               !.opt = [@ EXCEPT !.weights =
                                         MergeTerms(@, [t \in {"bkg"} |-> DefaultWeights])]],
                    seed, rnd, NoneV, NoneV)
  ELSE restart(s2, seed, rnd, NoneV, NoneV)

prep_inputs(s, pdb, length, seed, rnd) ==
  The({prep_bkg(IF length = NoneV THEN s1 ELSE [s1 EXCEPT !._len = length], seed, rnd) :
         s1 \in {prep_target(s, pdb)}})

\* variant: the key is split whenever sampling is enabled
SampledAlways(o) == o.model.sample

\* if self.opt["model"]["sample"] and m != len(ns)
Sampled(o) == o.model.sample /\ o.model.num # Len(ns)

\* variant: the losses are summed, not averaged
AvgLossSum(v) == IF Len(v) > 1 THEN RSum(v) ELSE v[1]

\* jnp.asarray(_loss).mean() when more than one instance ran, else _loss[0]
AvgLoss(v) == IF Len(v) > 1 THEN RMean(v) ELSE v[1]

\* jax.tree_map(lambda *v: jnp.stack(v).mean(0), *_aux), else _aux[0]
AvgAux(v) ==
  IF Len(v) > 1
  THEN [outputs |-> RMean([i \in 1..Len(v) |-> v[i].outputs]),
        losses |-> [t \in DOMAIN v[1].losses |-> [k \in DOMAIN v[1].losses[t] |->
                      RMean([i \in 1..Len(v) |-> v[i].losses[t][k]])]]]
  ELSE v[1]

\* jax.tree_map(lambda *v: jnp.stack(v).mean(0), *_grad), else _grad[0]
AvgGrad(v) ==
  IF Len(v) > 1 THEN [seq |-> ArrMean([i \in 1..Len(v) |-> v[i].seq])] ELSE v[1]

\* variant: ones_like in place of zeros_like
OnesGrad(prm) ==
  [seq |-> [shape |-> prm.seq.shape,
            data |-> [i \in DOMAIN prm.seq.data |->
                       [a \in DOMAIN prm.seq.data[i] |-> RInt(1)]]]]

\* jax.tree_map(jnp.zeros_like, self.params)
ZeroGrad(prm) == [seq |-> IF prm.seq = NoneV THEN NoneV ELSE ZerosLike(prm.seq)]

\* variant: the last-result fields are cleared when a run raises
AbortReset(s, e, done) ==
  [s EXCEPT !.err = e, !.used = done, !._loss = NoneV, !._aux = NoneV, !._grad = NoneV]

\* a run that raised e after invoking the instances in done
Abort(s, e, done) == [s EXCEPT !.err = e, !.used = done]

\* the "update" block that ends a run
Commit(s, loss, aux, grad, model_num) ==
  [s EXCEPT !._loss = loss,
            !._aux = [outputs |-> aux.outputs, losses |-> aux.losses,
                      model_num |-> model_num],
            !._grad = grad,
            !.used = model_num]

\* the "run in serial" loop, the averaging and the update of run
run_models(s2, model_num, res, backprop) ==
  LET bad == {i \in 1..Len(model_num) : res[i].err # "none"}
      first == CHOOSE i \in bad : \A j \in bad : i <= j
  IN IF bad # {} THEN Abort(s2, res[first].err, SubSeq(model_num, 1, first))
     ELSE IF Len(model_num) = 0 THEN Abort(s2, "IndexError", <<>>)
     ELSE Commit(s2,
                 AvgLoss([i \in 1..Len(res) |-> res[i].loss]),
                 AvgAux([i \in 1..Len(res) |-> res[i].aux]),
                 IF backprop THEN AvgGrad([i \in 1..Len(res) |-> res[i].grad])
                 ELSE ZeroGrad(s2.params),
                 model_num)

\* "decide which model params to use": <<session, model_num>>
run_select(s1) ==
  IF Sampled(s1.opt)
  THEN The({<<[s1 EXCEPT !._key = ks[1]], Choice(ks[2], s1.opt.model.num)>> :
              ks \in {Split(s1._key)}})
  ELSE <<s1, Take(ns, s1.opt.model.num)>>

\* run(seq, params, opt, weights, backprop)
run(s, seq, prm, o, w, backprop) ==
  The({IF Sampled(s1.opt) /\ s1._key = Undef THEN Abort(s1, "AttributeError", <<>>)
       ELSE The({The({run_models(p[1], p[2], res, backprop) :
                        res \in {[i \in 1..Len(p[2]) |->
                                   IF backprop THEN GradFn(p[1], p[2][i])
                                   ELSE Fn(p[1], p[2][i])]}}) :
                   p \in {run_select(s1)}}) :
         s1 \in {[s EXCEPT !.params = update_params(@, seq, prm),
                           !.opt = set_weights(set_opt(@, o), w),
                           !.err = "none", !.used = <<>>]}})

\* get_loss(k) of af_callback
TermLoss(s, k) ==
  RSum([x \in 1..4 |-> RMul(s._aux.losses[k][Channels[x]], s.opt.weights[k][Channels[x]])])

\* variant: the gradient accumulator is assigned, not added to
callback_overwrite(s, s2, weight, add_loss, af) ==
  IF s2.err # "none" THEN <<s2, af>>
  ELSE <<s2, [af EXCEPT !._grad =
                [@ EXCEPT !.seq = [b \in DOMAIN @ |->
                   AddScaled(ZerosLike(@[b]), RInt(weight), s2._grad.seq)]],
              !._loss = IF add_loss THEN RAdd(@, RMul(RInt(weight), s2._loss)) ELSE @]>>

\* the body of the callback after self.run: the additive updates of af
\* (<<session after, af after>>)
callback_update(s, s2, weight, add_loss, af) ==
  LET backprop == weight > 0
      g == IF backprop
           THEN [af._grad EXCEPT !.seq =
                   [b \in DOMAIN @ |-> AddScaled(@[b], RInt(weight), s2._grad.seq)]]
           ELSE af._grad
      l == IF add_loss THEN RAdd(af._loss, RMul(RInt(weight), s2._loss)) ELSE af._loss
      names == (IF s.protocol \in {"hallucination", "partial"} THEN {"TrD_bkg"} ELSE {})
               \cup (IF s.protocol \in {"fixbb", "partial"} THEN {"TrD_cce"} ELSE {})
      reported == [k \in names |->
                     IF k = "TrD_bkg" THEN TermLoss(s2, "bkg") ELSE TermLoss(s2, "cce")]
  IN IF s2.err # "none" THEN <<s2, af>>
     ELSE <<s2, [af EXCEPT !._grad = g, !._loss = l,
                           !._aux = [@ EXCEPT !.losses = MergeLeaves(@, reported)]]>>

\* the callback returned by af_callback(weight, add_loss), applied to af
callback(s, weight, add_loss, af) ==
  LET synced == [s EXCEPT !.opt = [k \in DOMAIN @ |->
                    IF k \in {"soft", "temp", "hard", "pos"} /\ k \in DOMAIN af.opt
                    THEN af.opt[k] ELSE @[k]]]
  IN The({callback_update(s, s2, weight, add_loss, af) :
            s2 \in {run(synced, af.params.seq[1], NoneV, NoneV, NoneV, weight > 0)}})

----------------------------------------------------------------------------
(* The session as a state machine *)

MaxCalls == 2

\* the session attributes as a record, and their assignment from a record
Sess ==
  [protocol |-> protocol, opt |-> opt, params |-> params, feats |-> feats,
   bkg_feats |-> bkg_feats, _len |-> _len, _seed |-> _seed, _key |-> _key,
   _loss |-> _loss, _aux |-> _aux, _grad |-> _grad, err |-> err, used |-> used]

Set(s) ==
  /\ protocol' = s.protocol /\ opt' = s.opt /\ params' = s.params
  /\ feats' = s.feats /\ bkg_feats' = s.bkg_feats /\ _len' = s._len
  /\ _seed' = s._seed /\ _key' = s._key /\ _loss' = s._loss /\ _aux' = s._aux
  /\ _grad' = s._grad /\ err' = s.err /\ used' = s.used

Op(name, backprop, weight, add_loss) ==
  [op |-> name, backprop |-> backprop, weight |-> weight, add_loss |-> add_loss]

\* arguments the callers pass
SeedArgs == {NoneV, Box(0)}
RandInts == {2147483647}
SeqArgs == {Full(L, RInt(1)) : L \in MaxLen..(MaxLen + 1)}
WeightArgs == {[cce |-> [dist |-> Rat(1, 2)]]}
OptArgs == {[temp |-> 2]}
NoArgs == [seq |-> NoneV, params |-> NoneV, opt |-> NoneV, weights |-> NoneV]
RunArgs ==
  {NoArgs}
  \cup {[NoArgs EXCEPT !.seq = x] : x \in SeqArgs}
  \cup {[NoArgs EXCEPT !.params = [seq |-> Full(MaxLen, RInt(2))]]}
  \cup {[NoArgs EXCEPT !.opt = x] : x \in OptArgs}
  \cup {[NoArgs EXCEPT !.weights = x] : x \in WeightArgs}

RunCalls == [a : RunArgs, backprop : BOOLEAN]

\* prep_inputs arguments: a PDB file (named by its length) for fixbb and partial,
\* a length for hallucination (or none, which raises)
PrepArgs(prot) ==
  CASE prot = "fixbb" -> {[pdb |-> Box(L), length |-> NoneV] : L \in Lens}
    [] prot = "hallucination" ->
         {[pdb |-> NoneV, length |-> x] : x \in {NoneV} \cup {Box(L) : L \in Lens}}
    [] prot = "partial" ->
         {[pdb |-> Box(L), length |-> x] : L \in Lens, x \in {NoneV, Box(MaxLen + 1)}}

\* the external optimizer object handed to the callback
AfModels ==
  {[opt |-> [soft |-> 0, temp |-> 2, hard |-> 0],
    params |-> [seq |-> <<Full(L, RInt(1))>>],
    _grad |-> [seq |-> <<Full(L, RInt(1))>>],
    _loss |-> RInt(3),
    _aux |-> [losses |-> [k \in {"plddt"} |-> RInt(1)]]] : L \in MaxLen..(MaxLen + 1)}

\* af_callback(weight, add_loss) arguments
CallbackArgs ==
  {[weight |-> 2, add_loss |-> TRUE], [weight |-> 2, add_loss |-> FALSE],
   [weight |-> 0, add_loss |-> TRUE], [weight |-> -1, add_loss |-> TRUE]}

Init ==
  /\ \E prot \in Protocols, model_num \in 1..NumModels, model_sample \in BOOLEAN :
       LET s == NewSession(prot, model_num, model_sample)
       IN /\ protocol = s.protocol /\ opt = s.opt /\ params = s.params
          /\ feats = s.feats /\ bkg_feats = s.bkg_feats /\ _len = s._len
          /\ _seed = s._seed /\ _key = s._key /\ _loss = s._loss /\ _aux = s._aux
          /\ _grad = s._grad /\ err = s.err /\ used = s.used
  /\ lastOp = Op("init", FALSE, 0, FALSE)
  /\ af_before = Undef /\ af_model = Undef
  /\ ncalls = 0
  /\ bin_in = Undef /\ bin_out = Undef /\ comp_in = Undef /\ comp_out = Undef

\* prep_inputs has been called on the session
PrepCalled == feats # Undef \/ bkg_feats # Undef

\* prep_inputs is called at most once per session, as its contract asks
PrepInputs(a, seed, rnd) ==
  /\ ncalls < MaxCalls
  /\ ~PrepCalled
  /\ \E r \in {prep_inputs(Sess, a.pdb, a.length, seed, rnd)} : Set(r)
  /\ lastOp' = Op("prep_inputs", FALSE, 0, FALSE)
  /\ ncalls' = ncalls + 1
  /\ UNCHANGED <<af_before, af_model, bin_in, bin_out, comp_in, comp_out>>

Restart(seed, rnd, w) ==
  /\ ncalls < MaxCalls
  /\ \E r \in {restart(Sess, seed, rnd, NoneV, w)} : Set(r)
  /\ lastOp' = Op("restart", FALSE, 0, FALSE)
  /\ ncalls' = ncalls + 1
  /\ UNCHANGED <<af_before, af_model, bin_in, bin_out, comp_in, comp_out>>

Run(a, backprop) ==
  /\ ncalls < MaxCalls
  /\ \E r \in {run(Sess, a.seq, a.params, a.opt, a.weights, backprop)} : Set(r)
  /\ lastOp' = Op("run", backprop, 0, FALSE)
  /\ ncalls' = ncalls + 1
  /\ UNCHANGED <<af_before, af_model, bin_in, bin_out, comp_in, comp_out>>

Callback(weight, add_loss, af) ==
  /\ ncalls < MaxCalls
  /\ \E r \in {callback(Sess, weight, add_loss, af)} : Set(r[1]) /\ af_model' = r[2]
  /\ af_before' = af
  /\ lastOp' = Op("callback", weight > 0, weight, add_loss)
  /\ ncalls' = ncalls + 1
  /\ UNCHANGED <<bin_in, bin_out, comp_in, comp_out>>

Next ==
  \/ \E a \in PrepArgs(protocol), rnd \in RandInts : PrepInputs(a, NoneV, rnd)
  \/ \E seed \in SeedArgs, rnd \in RandInts :
       Restart(seed, IF seed = NoneV THEN rnd ELSE 0, NoneV)
  \/ \E c \in RunCalls : Run(c.a, c.backprop)
  \/ \E c \in CallbackArgs, af \in AfModels : Callback(c.weight, c.add_loss, af)

Spec == Init /\ [][Next]_vars

----------------------------------------------------------------------------
(* The geometry binner as a pure function of the 6D geometry *)

\* the session is not involved: a fresh default session, never called
Idle ==
  /\ \E s \in {NewSession("fixbb", 1, TRUE)} :
       /\ protocol = s.protocol /\ opt = s.opt /\ params = s.params
       /\ feats = s.feats /\ bkg_feats = s.bkg_feats /\ _len = s._len
       /\ _seed = s._seed /\ _key = s._key /\ _loss = s._loss /\ _aux = s._aux
       /\ _grad = s._grad /\ err = s.err /\ used = s.used
  /\ lastOp = Op("init", FALSE, 0, FALSE)
  /\ af_before = Undef /\ af_model = Undef
  /\ ncalls = 0

InitBin ==
  /\ Idle
  /\ bin_in \in BinInputs /\ bin_out = Undef
  /\ comp_in = Undef /\ comp_out = Undef

Bin ==
  /\ bin_out = Undef
  /\ bin_out' = np_get_6D_binned(bin_in)
  /\ UNCHANGED <<sessionVars, bin_in, comp_in, comp_out>>

NextBin == Bin

SpecBin == InitBin /\ [][NextBin]_vars

----------------------------------------------------------------------------
(* The loss composition _get_loss as a pure function of protocol and weights *)

\* weight trees: any subset of the terms, each with any subset of the channels
WeightTrees ==
  UNION {[T -> {[k \in C |-> DefaultWeights[k]] : C \in SUBSET ChannelSet}] :
           T \in SUBSET {"cce", "bkg"}}

\* the target, background and network output of a prepared session of length MaxLen
CompFeats == np_get_6D_binned(PdbRef(MaxLen))
CompBkg == BkgMean(MaxLen)
CompOutputs == Runner(get_seq([seq |-> Zeros(MaxLen)], NewSession("fixbb", 1, TRUE).opt).seq, 0)

InitLoss ==
  /\ Idle
  /\ bin_in = Undef /\ bin_out = Undef
  /\ comp_in \in [protocol : Protocols, weights : WeightTrees]
  /\ comp_out = Undef

ComposeLoss ==
  /\ comp_out = Undef
  /\ comp_out' = get_loss(comp_in.protocol, CompFeats, CompBkg, CompOutputs,
                          [weights |-> comp_in.weights])
  /\ UNCHANGED <<sessionVars, bin_in, bin_out, comp_in>>

NextLoss == ComposeLoss

SpecLoss == InitLoss /\ [][NextLoss]_vars

----------------------------------------------------------------------------
(* Properties of the geometry binner *)

\* the bin vectors of the output, one per channel and residue pair
BinVectors(out) ==
  {out[k][i][j] : k \in ChannelSet, i \in DOMAIN out.dist, j \in DOMAIN out.dist}

VecSum(v) == SumSeq([c \in 1..Cardinality(DOMAIN v) |-> v[c]])

\* C8: for every residue pair and each of the four channels the bin vector produced
\* by _np_get_6D_binned has no negative entry and sums to exactly 1 (it is one-hot),
\* also for unmasked values on or above the upper end of the channel's domain.
C8_OneHot ==
  bin_out # Undef =>
    \A v \in BinVectors(bin_out) : (\A c \in DOMAIN v : v[c] >= 0) /\ VecSum(v) = 1

\* an unmasked pair at distance exactly 20.0 whose dist vector is all zero
C8_ZeroRow ==
  /\ bin_out # Undef
  /\ bin_in.dist[1][2] = DistEnd
  /\ \A c \in DOMAIN bin_out.dist[1][2] : bin_out.dist[1][2][c] = 0

----------------------------------------------------------------------------
(* Properties of the loss composition *)

\* the loss terms _get_loss computes for a protocol
TermsOf(prot) ==
  (IF prot \in {"hallucination", "partial"} THEN {"bkg"} ELSE {})
  \cup (IF prot \in {"fixbb", "partial"} THEN {"cce"} ELSE {})

\* the weights have exactly one entry per computed term and channel
WeightsMatch(prot, weights) ==
  DOMAIN weights = TermsOf(prot) /\ \A t \in DOMAIN weights : DOMAIN weights[t] = ChannelSet

\* C10 as stated: a loss term or channel without a weight entry contributes zero, an
\* unmatched weight contributes nothing, the total is the sum of loss times weight
\* with a missing weight counted as 0, and the composition completes with a result.
C10_MissingIsZero ==
  comp_out # Undef =>
    /\ comp_out.err = "none"
    /\ comp_out.loss = ZeroDefaultTotal(comp_out.aux.losses, comp_in.weights)

\* C10 amended: when opt["weights"] has exactly one entry per computed term and
\* channel the total is the sum of loss times weight over the computed losses and the
\* composition returns a result; when an entry is missing or unmatched the
\* composition raises and no total is produced.
C10_WeightedOrRaises ==
  comp_out # Undef =>
    IF WeightsMatch(comp_in.protocol, comp_in.weights)
    THEN /\ comp_out.err = "none"
         /\ DOMAIN comp_out.aux.losses = TermsOf(comp_in.protocol)
         /\ comp_out.loss = ZeroDefaultTotal(comp_out.aux.losses, comp_in.weights)
    ELSE comp_out.err = "ValueError" /\ comp_out.loss = Undef

\* a fixed-backbone composition whose weights lack the cce entry: it raised
C10_Witness ==
  /\ comp_out # Undef
  /\ comp_in.protocol = "fixbb"
  /\ "cce" \notin DOMAIN comp_in.weights
  /\ comp_out.err = "ValueError"

----------------------------------------------------------------------------
(* Properties of the session *)

\* the step is a run call (made directly or by the callback)
RunStep == lastOp'.op \in {"run", "callback"}

\* the state follows a run call, successful or not
AfterRun == lastOp.op \in {"run", "callback"}

\* the state follows a run call that returned
AfterGoodRun == AfterRun /\ err = "none"

\* C1 as stated: on a session that has a key, every run call with sampling enabled
\* advances _key by exactly one split, for every model.num in 1..5, and every run
\* call with sampling disabled leaves _key unchanged.
C1_SplitWhenSampleFlag ==
  [][(RunStep /\ _key # Undef) =>
       _key' = IF opt'.model.sample THEN Split(_key)[1] ELSE _key]_vars

\* C1 amended: a run call advances _key by exactly one split when sampling is
\* enabled and model.num differs from the ensemble size 5; it leaves _key unchanged
\* when sampling is disabled or model.num equals 5.
C1_SplitWhenSubsetSampled ==
  [][(RunStep /\ _key # Undef) =>
       _key' = IF opt'.model.sample /\ opt'.model.num # NumModels
               THEN Split(_key)[1] ELSE _key]_vars

\* a sampling run with model.num < 5 returned and the key is one split from its seed
C1_Witness ==
  /\ AfterGoodRun
  /\ opt.model.sample /\ opt.model.num = 3
  /\ _key = Split(PRNGKey(_seed.val))[1]

\* C2 as stated: a run call that fails leaves params["seq"], opt (with its weights),
\* _key and the last-result fields as they were, and the last-result fields are the
\* only state a run call ever writes.
C2_FailedRunChangesNothing ==
  [][RunStep =>
       /\ params' = params /\ opt' = opt /\ _key' = _key
       /\ (err' # "none" => _loss' = _loss /\ _aux' = _aux /\ _grad' = _grad)]_vars

\* C2 amended: a run call that fails leaves the last-result fields _loss, _aux and
\* _grad as they were; they are written only by a call that returns, which records
\* the instance indices it used.  (The overrides and the key split of the failed
\* call persist.)
C2_FailedRunKeepsResults ==
  [][RunStep =>
       IF err' # "none"
       THEN _loss' = _loss /\ _aux' = _aux /\ _grad' = _grad
       ELSE _loss' # Undef /\ _grad' # Undef /\ _aux'.model_num = used']_vars

\* a run on a prepared session failed on a sequence of the wrong length: the logits
\* and the key were replaced, the result fields were not
C2_Witness ==
  /\ lastOp.op = "run" /\ err = "TypeError"
  /\ feats # Undef /\ _len # Undef
  /\ params.seq # NoneV /\ params.seq.shape[1] # _len.val
  /\ opt.model.sample /\ opt.model.num # NumModels /\ _key = Split(PRNGKey(_seed.val))[1]
  /\ _loss = Undef

\* C3: the list of instance indices recorded in aux["model_num"] by a run call with
\* model.num = m has exactly m entries, pairwise distinct, each in 0..4; it is
\* [0, ..., m-1] when m = 5 or sampling is disabled; the instances were invoked in
\* the recorded order.
C3_ModelNum ==
  AfterGoodRun =>
    LET mn == _aux.model_num
        m == opt.model.num
    IN /\ Len(mn) = m
       /\ \A i \in 1..Len(mn) : mn[i] \in 0..(NumModels - 1)
       /\ \A i, j \in 1..Len(mn) : i # j => mn[i] # mn[j]
       /\ (m = NumModels \/ ~opt.model.sample) => mn = [i \in 1..m |-> i - 1]
       /\ used = mn

\* a sampling run recorded three instances that are not 0, 1, 2
C3_Witness ==
  /\ AfterGoodRun
  /\ opt.model.sample /\ opt.model.num = 3
  /\ _aux.model_num # <<0, 1, 2>>

\* C4: once prep_inputs has been called, restart and run calls never change feats or
\* bkg_feats; restart on a prepared session sets params["seq"] to an all-zero
\* [length x 20] array, sets the key from the supplied seed or from a fresh random
\* one, and returns.
C4_CacheKept ==
  [][/\ (lastOp'.op \in {"restart", "run", "callback"} /\ PrepCalled)
          => feats' = feats /\ bkg_feats' = bkg_feats
     /\ (lastOp'.op = "restart" /\ _len # Undef)
          => /\ err' = "none"
             /\ params'.seq.shape = <<_len.val, NumAA>>
             /\ \A i \in 1.._len.val : \A a \in 1..NumAA :
                  params'.seq.data[i][a] = RInt(0)
             /\ _seed' # Undef
             /\ _seed'.val \in RandInts \cup {x.val : x \in SeedArgs \ {NoneV}}
             /\ _key' = [hi |-> 0, lo |-> _seed'.val, path |-> <<>>]
             /\ _len' = _len]_vars

\* restart with seed 0 on a prepared fixed-backbone session returned
C4_Witness ==
  /\ lastOp.op = "restart" /\ err = "none"
  /\ feats # Undef
  /\ _seed = Box(0)
  /\ params.seq = Zeros(_len.val)

\* C5 as stated: a run call on a session on which prep_inputs was never called is
\* rejected with a ConfigurationError, whatever the protocol and the arguments, and
\* produces no result.
C5_ConfigurationError ==
  (AfterRun /\ ~PrepCalled) =>
    err = "ConfigurationError" /\ _loss = Undef /\ _aux = Undef /\ _grad = Undef

\* C5 amended: a run call on a session on which prep_inputs was never called fails,
\* whatever the protocol and the arguments, and produces no result; no check of the
\* configuration is made: the error is the AttributeError or TypeError raised by the
\* first use of the missing state (the key, the logits, the cached distributions).
C5_UnconfiguredRunFails ==
  (AfterRun /\ ~PrepCalled) =>
    /\ err = IF opt.model.sample /\ opt.model.num # NumModels /\ _key = Undef
             THEN "AttributeError"
             ELSE IF params.seq = NoneV THEN "TypeError" ELSE "AttributeError"
    /\ _loss = Undef /\ _aux = Undef /\ _grad = Undef

\* a run with a sequence on an unconfigured session reached the model and failed on
\* the missing target
C5_Witness ==
  /\ lastOp.op = "run" /\ ~PrepCalled
  /\ params.seq # NoneV
  /\ ~opt.model.sample
  /\ err = "AttributeError"

\* the values instance n computes on the session's current logits and options
Single(n) == GradFn(Sess, n)

\* the values of the instances recorded by the last run, in the recorded order
Singles == [i \in 1..Len(_aux.model_num) |-> Single(_aux.model_num[i])]

\* k times x, for a rational x
Times(k, x) == RMul(RInt(k), x)

\* C6: for a run call that used k instances, the stored loss is the arithmetic mean
\* of the k losses computed individually for those instances on the same logits and
\* options (k times the stored value is their sum), likewise every entry of the
\* gradient and every numeric leaf of aux; when k = 1 the stored loss, aux and
\* gradient are that instance's values unchanged.
C6_Mean ==
  AfterGoodRun =>
    \A each \in {Singles} :
      LET k == Len(_aux.model_num)
      IN /\ k >= 1 /\ Len(each) = k
         /\ Times(k, _loss) = RSum([i \in 1..k |-> each[i].loss])
         /\ Times(k, _aux.outputs) = RSum([i \in 1..k |-> each[i].aux.outputs])
         /\ \A t \in DOMAIN _aux.losses : \A c \in DOMAIN _aux.losses[t] :
              Times(k, _aux.losses[t][c]) = RSum([i \in 1..k |-> each[i].aux.losses[t][c]])
         /\ lastOp.backprop =>
              /\ _grad.seq.shape = params.seq.shape
              /\ \A i \in DOMAIN _grad.seq.data : \A a \in DOMAIN _grad.seq.data[i] :
                   Times(k, _grad.seq.data[i][a])
                     = RSum([j \in 1..k |-> each[j].grad.seq.data[i][a]])
         /\ k = 1 =>
              /\ _loss = each[1].loss
              /\ _aux.outputs = each[1].aux.outputs /\ _aux.losses = each[1].aux.losses
              /\ lastOp.backprop => _grad = each[1].grad

\* a run averaged three instances whose losses differ
C6_Witness ==
  /\ AfterGoodRun /\ lastOp.backprop
  /\ Len(_aux.model_num) = 3
  /\ _loss # Single(_aux.model_num[1]).loss
  /\ _loss # Single(_aux.model_num[3]).loss

\* what run(backprop = b) stores for the session's current logits, options and the
\* recorded instance indices
Twin(b) == The({run_models(Sess, _aux.model_num, each, b) : each \in {Singles}})

\* C7: run(backprop=false) stores a gradient shaped like the current logits with
\* all entries zero, and the same loss and aux that run(backprop=true) stores for
\* the same logits, options and instance indices; only the gradient differs.
C7_ZeroGradSameLoss ==
  AfterGoodRun =>
    \A with \in {Twin(TRUE)}, without \in {Twin(FALSE)} :
      /\ with.err = "none" /\ without.err = "none"
      /\ with._loss = without._loss /\ with._aux = without._aux
      /\ without._grad.seq.shape = params.seq.shape
      /\ \A i \in 1..params.seq.shape[1] : \A a \in 1..params.seq.shape[2] :
           without._grad.seq.data[i][a] = RInt(0)
      /\ _loss = with._loss /\ _aux = with._aux
      /\ _grad = IF lastOp.backprop THEN with._grad ELSE without._grad

\* a run without backprop stored zeros where the run with backprop stores a
\* gradient that is not zero
C7_Witness ==
  /\ AfterGoodRun /\ lastOp.op = "run" /\ ~lastOp.backprop
  /\ _loss # RInt(0)
  /\ Twin(TRUE)._grad # _grad

\* C9: the callback changes the external optimizer's gradient accumulator only
\* additively: when weight > 0 and the run returned, _grad["seq"] after the call is
\* its value before plus weight times this session's gradient, entry by entry; when
\* weight <= 0 (or the run raised) the accumulator is as it was; the loss
\* accumulator grows by weight times this session's loss when add_loss is set.
C9_Additive ==
  lastOp.op = "callback" =>
    /\ IF err = "none" /\ lastOp.weight > 0
       THEN \A b \in DOMAIN af_before._grad.seq :
              /\ af_model._grad.seq[b].shape = af_before._grad.seq[b].shape
              /\ \A i \in 1..af_before._grad.seq[b].shape[1] : \A a \in 1..NumAA :
                   af_model._grad.seq[b].data[i][a]
                     = RAdd(af_before._grad.seq[b].data[i][a],
                            Times(lastOp.weight, _grad.seq.data[i][a]))
       ELSE af_model._grad = af_before._grad
    /\ af_model._loss = IF err = "none" /\ lastOp.add_loss
                        THEN RAdd(af_before._loss, Times(lastOp.weight, _loss))
                        ELSE af_before._loss
    /\ af_model.params = af_before.params /\ af_model.opt = af_before.opt

\* a callback with weight 2 added a gradient that is not zero to the accumulator
C9_Witness ==
  /\ lastOp.op = "callback" /\ err = "none" /\ lastOp.weight = 2
  /\ af_model._grad # af_before._grad
  /\ _grad.seq # ZerosLike(_grad.seq)

\* a callback with weight <= 0 reported the loss and left the gradient accumulator
C9_ReportOnly ==
  /\ lastOp.op = "callback" /\ err = "none" /\ lastOp.weight = 0
  /\ af_model._grad = af_before._grad
  /\ af_model._aux # af_before._aux

====
